---------------------------- MODULE Spec2Model ----------------------------
(***************************************************************************)
(* State-machine model of panacus' coverage bookkeeping and growth         *)
(* analysis:                                                               *)
(*   - IntervalContainer and ActiveTable        (src/src/util.rs)          *)
(*   - Threshold                                (src/src/util.rs)          *)
(*   - Growth::set_inner                        (src/src/analyses/growth.rs)*)
(*   - execute_pipeline                         (src/src/lib.rs)           *)
(*   - AnalysisSection, combine_vars            (src/src/html_report.rs)   *)
(* Several specifications share the module.  Each one drives its own group *)
(* of variables and leaves the other groups at their initial value:        *)
(*   Spec          an ActiveTable under activate / activate_n_annotate     *)
(*   SpecIC        a bare IntervalContainer under add / remove / get       *)
(*   SpecTC        IntervalContainer::total_coverage on drawn inputs       *)
(*   SpecGrowth    a Growth object computing its growth curves             *)
(*   SpecParse     ThresholdContainer::parse_params on drawn texts         *)
(*   SpecHeaps     the Heaps fit of one count type on drawn histograms     *)
(*   SpecThreshold Threshold::to_absolute / to_relative on drawn inputs    *)
(*   SpecActivate  two callers of ActiveTable::activate on one bitset      *)
(*   SpecQuery     an ActiveTable queried by get_active_intervals          *)
(*   SpecRegression get_regression on drawn histograms                     *)
(*   SpecMultiBar  the MultiBar item of the Growth report section          *)
(*   SpecPipeline  execute_pipeline on drawn instruction lists             *)
(*   SpecJsVars    the JS data object of a report of drawn sections        *)
(***************************************************************************)
EXTENDS Integers, Sequences, FiniteSets, TLC

VARIABLES
    overflow_checks, \* build profile: TRUE = overflow-checks on (dev), FALSE = release
    item_lens,       \* per item id, the length of the item (the item_len its callers pass)
    items,           \* ActiveTable.items : Vec<bool>
    annotation,      \* ActiveTable.annotation : Option<IntervalContainer>
    ret,             \* outcome of the last ActiveTable call
    last,            \* the last ActiveTable call and whether it changed the table
    tiles,           \* per id: the activate_n_annotate calls made so far (history)
    nops,            \* number of ActiveTable calls made
    ic,              \* IntervalContainer.map of a bare container
    ic_hist,         \* per id: the intervals added since the entry was last removed
    cov,             \* the last total_coverage(id, None) query on ic and its result
    ic_ops,          \* number of IntervalContainer calls made
    tc_v,            \* total_coverage: the stored intervals of the id
    tc_ex,           \* total_coverage: the exclude argument
    tc_out,          \* total_coverage: the value returned
    hists,           \* GraphBroker::get_hists(): per count type, N and the coverage counts
    hist_aux,        \* ThresholdContainer::parse_params of the parameter's texts
    inner,           \* Growth.inner : Option<InnerGrowth>
    parameter,       \* Growth.parameter : the coverage and quorum texts
    gr_ret,          \* the last call on the Growth object and its outcome
    call_in,         \* the arguments of a function applied to drawn inputs
    call_out,        \* its result
    act_items,       \* the Vec<bool> two callers of activate share
    act_pc,          \* per caller: the ids left to activate and its next step
    act_tmp          \* per caller: the bit it has read

vars == <<overflow_checks, item_lens, items, annotation, ret, last, tiles, nops,
          ic, ic_hist, cov, ic_ops, tc_v, tc_ex, tc_out, hists, hist_aux, inner,
          parameter, gr_ret, call_in, call_out, act_items, act_pc, act_tmp>>

atVars == <<item_lens, items, annotation, ret, last, tiles, nops>>
icVars == <<ic, ic_hist, cov, ic_ops>>
tcVars == <<tc_v, tc_ex, tc_out>>
grVars == <<hists, hist_aux, inner, parameter, gr_ret>>
callVars == <<call_in, call_out>>
actVars == <<act_items, act_pc, act_tmp>>

----------------------------------------------------------------------------
(* Bounds of the model *)

\* largest coordinate of an interval, and largest item length
MaxPos == 3
\* number of calls made on an ActiveTable
MaxOps == 3
\* number of calls made on a bare IntervalContainer
MaxIcOps == 3
\* number of intervals of a list handed to total_coverage
MaxIvs == 2
\* largest number N of paths of a graph
MaxN == 3
\* number of items of one count type
MaxItems == 2
\* tokens of one comma-separated threshold list
MaxTokens == 3
\* paths of the graph a Heaps curve is fitted for
MaxHeapsN == 5
\* activate calls of one caller
MaxActs == 2
\* the n of Threshold::to_absolute(n) and Threshold::to_relative(n)
MaxThN == 13

\* the item ids of a table / container (ItemId.0 as usize indexes items)
Ids == {0, 1}
Pos == 0 .. MaxPos
\* the lengths of the items of the graph: the longest possible, and one shorter
ItemLens == [k \in Ids |-> MaxPos - k]

\* usize arithmetic wraps modulo 2^64 when overflow checks are off.  TLC's
\* integers are 32 bit wide, so the modulus is scaled down; every operand of
\* the model is at most MaxPos, far below it, and a wrapped value (modulus
\* minus a small number) compares with the small values exactly as it does
\* at 64 bits.
USIZE_MOD == 2^20

\* the value standing for a panic (arithmetic overflow with checks on,
\* unwrap on None)
Panic == -1

----------------------------------------------------------------------------
(* IntervalContainer: map: HashMap<ItemId, Vec<(usize, usize)>>.  A map is a *)
(* function whose domain is its key set; an interval is <<start, end>>.     *)

EmptyMap == [k \in {} |-> <<>>]

\* slice::binary_search_by_key(&start, |&(y, _)| y).unwrap_or_else(|z| z):
\* the index (0-based) of an element whose start is `key`, else the
\* insertion point.
RECURSIVE BinarySearch(_, _, _, _)
BinarySearch(x, key, left, right) ==
    IF left >= right THEN left
    ELSE LET mid == left + ((right - left) \div 2) IN
         IF x[mid + 1][1] < key THEN BinarySearch(x, key, mid + 1, right)
         ELSE IF x[mid + 1][1] > key THEN BinarySearch(x, key, left, mid)
         ELSE mid

\* mutant of AddToVec: an extended predecessor that now reaches its
\* successor is merged with it into one interval
AddToVec_Coalesce(x, start, end) ==
    LET i == BinarySearch(x, start, 0, Len(x)) IN
    IF i > 0 /\ x[i][2] >= start /\ x[i][2] <= end
    THEN IF i < Len(x) /\ x[i + 1][1] <= end
         THEN SubSeq(x, 1, i - 1)
                \o <<<<x[i][1], IF end >= x[i + 1][2] THEN end ELSE x[i + 1][2]>>>>
                \o SubSeq(x, i + 2, Len(x))
         ELSE [x EXCEPT ![i] = <<x[i][1], end>>]
    ELSE IF i < Len(x) /\ x[i + 1][2] >= start /\ x[i + 1][2] < end
    THEN [x EXCEPT ![i + 1] = <<x[i + 1][1], end>>]
    ELSE IF i < Len(x) /\ x[i + 1][1] <= end
    THEN [x EXCEPT ![i + 1] = <<start, x[i + 1][2]>>]
    ELSE SubSeq(x, 1, i) \o <<<<start, end>>>> \o SubSeq(x, i + 1, Len(x))

\* the closure of and_modify in IntervalContainer::add
AddToVec(x, start, end) ==
    LET i == BinarySearch(x, start, 0, Len(x)) IN
    IF i > 0 /\ x[i][2] >= start /\ x[i][2] <= end
    THEN [x EXCEPT ![i] = <<x[i][1], end>>]
    ELSE IF i < Len(x) /\ x[i + 1][2] >= start /\ x[i + 1][2] < end
    THEN [x EXCEPT ![i + 1] = <<x[i + 1][1], end>>]
    ELSE IF i < Len(x) /\ x[i + 1][1] <= end
    THEN [x EXCEPT ![i + 1] = <<start, x[i + 1][2]>>]
    ELSE SubSeq(x, 1, i) \o <<<<start, end>>>> \o SubSeq(x, i + 1, Len(x))

\* IntervalContainer::add
MapAdd(m, id, start, end) ==
    [k \in DOMAIN m \cup {id} |->
        IF k = id
        THEN IF id \in DOMAIN m THEN AddToVec(m[id], start, end)
             ELSE <<<<start, end>>>>
        ELSE m[k]]

\* IntervalContainer::remove
\* mutant of MapRemove: the whole map is cleared
MapRemove_All(m, id) == [k \in {} |-> m[k]]

MapRemove(m, id) == [k \in DOMAIN m \ {id} |-> m[k]]

\* IntervalContainer::contains
MapContains(m, id) == id \in DOMAIN m

----------------------------------------------------------------------------
(* usize arithmetic *)

\* a - b on usize: panics with overflow checks, wraps without
USub(a, b, checks) ==
    IF a = Panic \/ b = Panic THEN Panic
    ELSE IF a >= b THEN a - b
    ELSE IF checks THEN Panic
    ELSE a - b + USIZE_MOD

\* a + b on usize
UAdd(a, b, checks) ==
    IF a = Panic \/ b = Panic THEN Panic
    ELSE IF a + b < USIZE_MOD THEN a + b
    ELSE IF checks THEN Panic
    ELSE (a + b) % USIZE_MOD

UMin(a, b) == IF a = Panic \/ b = Panic THEN Panic ELSE IF a <= b THEN a ELSE b

----------------------------------------------------------------------------
(* IntervalContainer::total_coverage *)

\* mutant of FoldNone: interval lengths taken with an inclusive right bound
RECURSIVE FoldNone_Inclusive(_, _, _, _)
FoldNone_Inclusive(v, k, x, checks) ==
    IF k > Len(v) THEN x
    ELSE FoldNone_Inclusive(v, k + 1,
            UAdd(USub(UAdd(x, v[k][2], checks), v[k][1], checks), 1, checks),
            checks)

\* exclude = None: v.iter().fold(0, |x, (a, b)| x + b - a)
RECURSIVE FoldNone(_, _, _, _)
FoldNone(v, k, x, checks) ==
    IF k > Len(v) THEN x
    ELSE FoldNone(v, k + 1, USub(UAdd(x, v[k][2], checks), v[k][1], checks), checks)

\* while i < ex.len() && &ex[i].1 <= start { i += 1; }   (i is 0-based)
RECURSIVE SkipExclude(_, _, _)
SkipExclude(ex, i, start) ==
    IF i < Len(ex) /\ ex[i + 1][2] <= start THEN SkipExclude(ex, i + 1, start)
    ELSE i

\* exclude = Some(ex): the for loop over v, from its k-th interval on
RECURSIVE FoldExclude(_, _, _, _, _, _)
FoldExclude(v, ex, k, i0, res, checks) ==
    IF k > Len(v) THEN res
    ELSE LET start == v[k][1]
             end   == v[k][2]
             i     == SkipExclude(ex, i0, start)
         IN  IF i < Len(ex) /\ ex[i + 1][1] < end
             THEN LET r1 == UAdd(res,
                                 USub(UMin(USub(ex[i + 1][1], 1, checks), end),
                                      start, checks),
                                 checks)
                      r2 == IF ex[i + 1][2] < end
                            THEN UAdd(r1,
                                      UAdd(USub(end, ex[i + 1][2], checks), 1, checks),
                                      checks)
                            ELSE r1
                  IN  FoldExclude(v, ex, k + 1, i, r2, checks)
             ELSE FoldExclude(v, ex, k + 1, i,
                              UAdd(res, USub(end, start, checks), checks), checks)

\* the Option<Vec<(usize, usize)>> exclude argument
NoExclude == [some |-> FALSE, v |-> <<>>]
SomeExclude(ex) == [some |-> TRUE, v |-> ex]

\* total_coverage on the Vec stored for the id
VecCoverage(v, exclude, checks) ==
    IF exclude.some THEN FoldExclude(v, exclude.v, 1, 0, 0, checks)
    ELSE FoldNone(v, 1, 0, checks)

\* IntervalContainer::total_coverage
TotalCoverage(m, id, exclude, checks) ==
    IF id \in DOMAIN m THEN VecCoverage(m[id], exclude, checks) ELSE 0

----------------------------------------------------------------------------
(* Idle values of the variable groups a specification does not drive *)

NoCall == [op |-> "none", id |-> 0, item_len |-> 0, start |-> 0, end |-> 0,
           items_changed |-> FALSE, annotation_changed |-> FALSE]
NoTiles == [k \in Ids |-> [seen |-> {}, clean |-> TRUE]]
\* the positions of the line covered by a half-open interval
Positions(iv) == {q \in Pos : iv[1] <= q /\ q < iv[2]}
NoCov == [valid |-> FALSE, id |-> 0, res |-> 0]
NoHist == [k \in Ids |-> [ivs |-> {}, disjoint |-> TRUE]]
NoResult == [done |-> FALSE, res |-> 0]
NoHists == [n |-> 1, list |-> <<>>]
NoThresholds == [ok |-> FALSE, coverage |-> <<>>, quorum |-> <<>>]
NoInner == [some |-> FALSE, growths |-> <<>>, hist_aux |-> NoThresholds,
            heaps_curves |-> <<>>]
NoText == [some |-> FALSE, text |-> <<>>]
NoGrowthCall == [res |-> "none", opened |-> FALSE, computed |-> FALSE]

IdleAT == /\ item_lens = [k \in Ids |-> 1]
          /\ items = [k \in Ids |-> FALSE]
          /\ annotation = [some |-> FALSE, map |-> EmptyMap]
          /\ ret = "none"
          /\ last = NoCall
          /\ tiles = NoTiles
          /\ nops = 0
IdleIC == /\ ic = EmptyMap
          /\ ic_hist = NoHist
          /\ cov = NoCov
          /\ ic_ops = 0
IdleTC == /\ tc_v = EmptyMap
          /\ tc_ex = NoExclude
          /\ tc_out = NoResult
NoQuery == [f |-> "none"]
IdleCall == /\ call_in = NoQuery
            /\ call_out = NoResult
IdleAct == /\ act_items = <<>>
           /\ act_pc = <<>>
           /\ act_tmp = <<>>
IdleGrowth == /\ IdleCall /\ IdleAct
              /\ hists = NoHists
              /\ hist_aux = NoThresholds
              /\ inner = NoInner
              /\ parameter = [coverage |-> NoText, quorum |-> NoText]
              /\ gr_ret = NoGrowthCall

----------------------------------------------------------------------------
(* Spec: an ActiveTable *)

\* mutant of ActivateNAnnotateFn: the full-length test is made before the
\* annotation is looked at, so a table without annotation sets the bit
ActivateNAnnotateFn_FullFirst(its, ann, id, item_len, start, end, checks) ==
    IF start <= end /\ end - start = item_len
    THEN [items |-> [its EXCEPT ![id] = TRUE],
          annotation |-> [ann EXCEPT !.map = MapRemove(ann.map, id)],
          ret |-> IF ann.some THEN "Ok" ELSE "Err_NoAnnotation"]
    ELSE [items |-> its, annotation |-> ann,
          ret |-> IF ann.some THEN "Ok" ELSE "Err_NoAnnotation"]

\* mutant of ActivateNAnnotateFn: the full-length branch sets the bit and
\* leaves the annotation map as it is (no `m.remove(&id)`)
ActivateNAnnotateFn_KeepRecord(its, ann, id, item_len, start, end, checks) ==
    IF ~ann.some
    THEN [items |-> its, annotation |-> ann, ret |-> "Err_NoAnnotation"]
    ELSE LET d == USub(end, start, checks) IN
         IF d = Panic
         THEN [items |-> its, annotation |-> ann, ret |-> "panic"]
         ELSE IF d = item_len
         THEN [items |-> [its EXCEPT ![id] = TRUE], annotation |-> ann,
               ret |-> "Ok"]
         ELSE LET m == IF start > end THEN ann.map
                       ELSE MapAdd(ann.map, id, start, end)
              IN  IF id \notin DOMAIN m
                  THEN [items |-> its, annotation |-> ann, ret |-> "panic"]
                  ELSE IF m[id][1] = <<0, item_len>>
                  THEN [items |-> [its EXCEPT ![id] = TRUE],
                        annotation |-> [ann EXCEPT !.map = MapRemove(m, id)],
                        ret |-> "Ok"]
                  ELSE [items |-> its,
                        annotation |-> [ann EXCEPT !.map = m],
                        ret |-> "Ok"]

\* ActiveTable::activate_n_annotate as a function of the table: the table
\* it leaves and what it returns ("panic": the call does not return)
\* mutant of ActivateNAnnotateFn: a partial interval clears the bit
ActivateNAnnotateFn_ClearOnPartial(its, ann, id, item_len, start, end, checks) ==
    IF ~ann.some
    THEN [items |-> its, annotation |-> ann, ret |-> "Err_NoAnnotation"]
    ELSE LET d == USub(end, start, checks) IN
         IF d = Panic
         THEN [items |-> its, annotation |-> ann, ret |-> "panic"]
         ELSE IF d = item_len
         THEN [items |-> [its EXCEPT ![id] = TRUE],
               annotation |-> [ann EXCEPT !.map = MapRemove(ann.map, id)],
               ret |-> "Ok"]
         ELSE LET m == IF start > end THEN ann.map
                       ELSE MapAdd(ann.map, id, start, end)
              IN  IF id \notin DOMAIN m
                  THEN [items |-> its, annotation |-> ann, ret |-> "panic"]
                  ELSE IF m[id][1] = <<0, item_len>>
                  THEN [items |-> [its EXCEPT ![id] = TRUE],
                        annotation |-> [ann EXCEPT !.map = MapRemove(m, id)],
                        ret |-> "Ok"]
                  ELSE [items |-> [its EXCEPT ![id] = FALSE],
                        annotation |-> [ann EXCEPT !.map = m],
                        ret |-> "Ok"]

ActivateNAnnotateFn(its, ann, id, item_len, start, end, checks) ==
    IF ~ann.some
    THEN [items |-> its, annotation |-> ann, ret |-> "Err_NoAnnotation"]
    ELSE LET d == USub(end, start, checks) IN
         IF d = Panic
         THEN [items |-> its, annotation |-> ann, ret |-> "panic"]
         ELSE IF d = item_len
         THEN [items |-> [its EXCEPT ![id] = TRUE],
               annotation |-> [ann EXCEPT !.map = MapRemove(ann.map, id)],
               ret |-> "Ok"]
         ELSE LET m == IF start > end THEN ann.map
                       ELSE MapAdd(ann.map, id, start, end)
              IN  IF id \notin DOMAIN m
                  THEN \* m.get(&id).unwrap() on None
                       [items |-> its, annotation |-> ann, ret |-> "panic"]
                  ELSE IF m[id][1] = <<0, item_len>>
                  THEN [items |-> [its EXCEPT ![id] = TRUE],
                        annotation |-> [ann EXCEPT !.map = MapRemove(m, id)],
                        ret |-> "Ok"]
                  ELSE [items |-> its,
                        annotation |-> [ann EXCEPT !.map = m],
                        ret |-> "Ok"]

\* ActiveTable::new(size, with_annotation)
Init ==
    /\ overflow_checks \in BOOLEAN
    /\ item_lens = ItemLens
    /\ items = [k \in Ids |-> FALSE]
    /\ \E with_annotation \in BOOLEAN :
           annotation = [some |-> with_annotation, map |-> EmptyMap]
    /\ ret = "none"
    /\ last = NoCall
    /\ tiles = NoTiles
    /\ nops = 0
    /\ IdleIC /\ IdleTC /\ IdleGrowth

\* ActiveTable::activate(id)
Activate(id) ==
    /\ ret # "panic"
    /\ nops < MaxOps
    /\ items' = [items EXCEPT ![id] = TRUE]
    /\ ret' = "Ok"
    /\ last' = [op |-> "activate", id |-> id, item_len |-> 0, start |-> 0,
                end |-> 0, items_changed |-> (items' # items),
                annotation_changed |-> FALSE]
    /\ tiles' = [tiles EXCEPT ![id].clean = FALSE]
    /\ nops' = nops + 1
    /\ call_in' = NoQuery /\ call_out' = NoResult
    /\ UNCHANGED <<overflow_checks, item_lens, annotation, icVars, tcVars, grVars,
                   actVars>>

\* ActiveTable::activate_n_annotate(id, item_len, start, end)
ActivateNAnnotate(id, start, end) ==
    /\ ret # "panic"
    /\ nops < MaxOps
    /\ LET r == ActivateNAnnotateFn(items, annotation, id, item_lens[id],
                                    start, end, overflow_checks)
       IN  /\ items' = r.items
           /\ annotation' = r.annotation
           /\ ret' = r.ret
    /\ last' = [op |-> "activate_n_annotate", id |-> id,
                item_len |-> item_lens[id], start |-> start, end |-> end,
                items_changed |-> (items' # items),
                annotation_changed |-> (annotation' # annotation)]
    /\ tiles' = [tiles EXCEPT ![id] =
                    [seen |-> @.seen \cup Positions(<<start, end>>),
                     clean |-> /\ @.clean
                               /\ start < end
                               /\ end - start < item_lens[id]
                               /\ @.seen \cap Positions(<<start, end>>) = {}]]
    /\ nops' = nops + 1
    /\ call_in' = NoQuery /\ call_out' = NoResult
    /\ UNCHANGED <<overflow_checks, item_lens, icVars, tcVars, grVars,
                   actVars>>

\* mutant of GetActiveIntervalsFn: the annotation map is asked before the bit
GetActiveIntervalsFn_MapFirst(its, ann, id, item_len) ==
    IF ann.some /\ id \in DOMAIN ann.map THEN ann.map[id]
    ELSE IF its[id] THEN <<<<0, item_len>>>>
    ELSE <<>>

\* ActiveTable::get_active_intervals(&self, id, item_len)
GetActiveIntervalsFn(its, ann, id, item_len) ==
    IF its[id] THEN <<<<0, item_len>>>>
    ELSE IF ann.some
    THEN IF id \in DOMAIN ann.map THEN ann.map[id] ELSE <<>>
    ELSE <<>>

\* number of table-changing calls that precede the queries of SpecQuery
MaxQueryOps == 2

\* a get_active_intervals(id, item_len) call on the table; call_in and
\* call_out hold the last query made since the table last changed
GetActiveIntervals(id) ==
    /\ ret # "panic"
    /\ call_in' = [f |-> "get_active_intervals", id |-> id,
                   item_len |-> item_lens[id]]
    /\ call_out' = [done |-> TRUE,
                    res |-> GetActiveIntervalsFn(items, annotation, id,
                                                 item_lens[id])]
    /\ UNCHANGED <<overflow_checks, atVars, icVars, tcVars, grVars, actVars>>

\* the table is built by up to MaxQueryOps calls and queried in between
QueryActivate(id) == nops < MaxQueryOps /\ Activate(id)

QueryActivateNAnnotate(id, start, end) ==
    nops < MaxQueryOps /\ ActivateNAnnotate(id, start, end)

NextQuery ==
    \/ \E id \in Ids : QueryActivate(id)
    \/ \E id \in Ids : \E start \in 0 .. item_lens[id] :
           \E end \in 0 .. item_lens[id] :
               QueryActivateNAnnotate(id, start, end)
    \/ \E id \in Ids : GetActiveIntervals(id)

Next ==
    \/ \E id \in Ids : Activate(id)
    \/ \E id \in Ids : \E start \in 0 .. item_lens[id] :
           \E end \in 0 .. item_lens[id] : ActivateNAnnotate(id, start, end)

Spec == Init /\ [][Next]_vars

SpecQuery == Init /\ [][NextQuery]_vars

----------------------------------------------------------------------------
(* Claims about ActiveTable, checked under Spec *)

\* C1: on a table built with annotation, no item id is at the same time
\* marked true in the bitset and a key of the annotation map.
C1_BitOrAnnotationNotBoth ==
    annotation.some =>
        \A id \in Ids : ~(items[id] /\ MapContains(annotation.map, id))

\* C2: when the activate_n_annotate calls made for an item are well-formed
\* partial intervals that tile [0, item_len) exactly (each position covered
\* once), the item's bit is true and the item has no entry in the annotation
\* map, whatever the order of the calls.
C2_TilingActivates ==
    annotation.some =>
        \A id \in Ids :
            (tiles[id].clean /\ tiles[id].seen = 0 .. (item_lens[id] - 1)) =>
                (items[id] /\ ~MapContains(annotation.map, id))

\* C8: activate_n_annotate with start > end on an annotated table returns
\* Ok, and leaves the bitset and the annotation map unchanged.
C8_MalformedIsSkipped ==
    (/\ last.op = "activate_n_annotate"
     /\ annotation.some
     /\ last.start > last.end) =>
        (ret = "Ok" /\ ~last.items_changed /\ ~last.annotation_changed)

\* C9: activate_n_annotate on a table built without annotation returns the
\* NoAnnotation error, for every argument, and leaves the bitset unchanged.
C9_NoAnnotationError ==
    (last.op = "activate_n_annotate" /\ ~annotation.some) =>
        (ret = "Err_NoAnnotation" /\ ~last.items_changed)

\* C9 witness: a full-length interval was passed to a table without
\* annotation, for an item whose bit is still false, and was refused.
C9_Witness ==
    /\ ~annotation.some
    /\ last.op = "activate_n_annotate"
    /\ last.start = 0
    /\ last.end = last.item_len
    /\ ~items[last.id]
    /\ ret = "Err_NoAnnotation"

----------------------------------------------------------------------------
(* SpecIC: a bare IntervalContainer *)

\* two half-open intervals share a point of the line: a.start < b.end and
\* b.start < a.end
Overlaps(a, b) == a[1] < b[2] /\ b[1] < a[2]

\* IntervalContainer::new.  With start <= end no arithmetic of add, remove
\* or the exclude-free fold leaves the range of usize, so the build profile
\* makes no difference here.
InitIC ==
    /\ overflow_checks = FALSE
    /\ ic = EmptyMap
    /\ ic_hist = NoHist
    /\ cov = NoCov
    /\ ic_ops = 0
    /\ IdleAT /\ IdleTC /\ IdleGrowth

\* IntervalContainer::add(id, start, end), start <= end
ICAdd(id, start, end) ==
    /\ ic_ops < MaxIcOps
    /\ start <= end
    /\ ic' = MapAdd(ic, id, start, end)
    /\ ic_hist' = [ic_hist EXCEPT ![id] =
                      [ivs |-> @.ivs \cup {<<start, end>>},
                       disjoint |-> @.disjoint /\
                            \A p \in @.ivs : ~Overlaps(p, <<start, end>>)]]
    /\ cov' = NoCov
    /\ ic_ops' = ic_ops + 1
    /\ UNCHANGED <<overflow_checks, atVars, tcVars, grVars, callVars, actVars>>

\* IntervalContainer::remove(id)
ICRemove(id) ==
    /\ ic_ops < MaxIcOps
    /\ ic' = MapRemove(ic, id)
    /\ ic_hist' = [ic_hist EXCEPT ![id] = [ivs |-> {}, disjoint |-> TRUE]]
    /\ cov' = NoCov
    /\ ic_ops' = ic_ops + 1
    /\ UNCHANGED <<overflow_checks, atVars, tcVars, grVars, callVars, actVars>>

\* IntervalContainer::total_coverage(id, &None)
ICTotalCoverage(id) ==
    /\ cov' = [valid |-> TRUE, id |-> id,
               res |-> TotalCoverage(ic, id, NoExclude, overflow_checks)]
    /\ UNCHANGED <<overflow_checks, ic, ic_hist, ic_ops, atVars, tcVars, grVars,
                   callVars, actVars>>

NextIC ==
    \/ \E id \in Ids, start \in Pos, end \in Pos : ICAdd(id, start, end)
    \/ \E id \in Ids : ICRemove(id)
    \/ \E id \in Ids : ICTotalCoverage(id)

SpecIC == InitIC /\ [][NextIC]_vars

----------------------------------------------------------------------------
(* Claims about IntervalContainer, checked under SpecIC *)

\* the positions of the line covered by a set or a sequence of intervals
PositionsOfSet(S) == UNION {Positions(iv) : iv \in S}
PositionsOfVec(v) == UNION {Positions(v[k]) : k \in DOMAIN v}

RECURSIVE SumOfLengths(_)
SumOfLengths(S) ==
    IF S = {} THEN 0
    ELSE LET iv == CHOOSE p \in S : TRUE
         IN  (iv[2] - iv[1]) + SumOfLengths(S \ {iv})

SortedByStart(v) == \A k \in 1 .. (Len(v) - 1) : v[k][1] <= v[k + 1][1]
\* no two intervals of the list cover a common position
PairwiseNonOverlapping(v) ==
    \A j \in DOMAIN v : \A k \in DOMAIN v :
        j # k => Positions(v[j]) \cap Positions(v[k]) = {}

\* C3: after any sequence of add(id, start, end) calls with start <= end the
\* list stored for every id is sorted by start and pairwise non-overlapping.
C3_SortedNonOverlapping ==
    \A id \in DOMAIN ic : SortedByStart(ic[id]) /\ PairwiseNonOverlapping(ic[id])

\* C4: the positions covered by the stored intervals of an id are exactly
\* the positions of the intervals added for it (none lost, none invented).
C4_CoverageIsUnion ==
    \A id \in Ids :
        ic_hist[id].ivs # {} =>
            /\ id \in DOMAIN ic
            /\ PositionsOfVec(ic[id]) = PositionsOfSet(ic_hist[id].ivs)

\* C5: add is idempotent: in every reachable container state and for every
\* interval, add(id, start, end) twice stores what add(id, start, end) once
\* stores.
C5_AddIdempotent ==
    \A id \in Ids : \A start \in Pos : \A end \in Pos :
        start <= end =>
            MapAdd(MapAdd(ic, id, start, end), id, start, end)
                = MapAdd(ic, id, start, end)

----------------------------------------------------------------------------
(* SpecTC: IntervalContainer::total_coverage(id, exclude) on drawn inputs *)

\* the lists of at most MaxIvs non-empty intervals over Pos that are sorted
\* and pairwise non-overlapping (neighbours may touch)
Intervals == {iv \in Pos \X Pos : iv[1] < iv[2]}
SortedLists ==
    {v \in UNION {[1 .. n -> Intervals] : n \in 0 .. MaxIvs} :
        \A k \in 1 .. (Len(v) - 1) : v[k][2] <= v[k + 1][1]}

\* a container holding one such list for id 0 (or nothing), an exclude
\* argument, and a build profile
InitTC ==
    /\ overflow_checks \in BOOLEAN
    /\ \E v \in SortedLists :
           tc_v = IF v = <<>> THEN EmptyMap ELSE [k \in {0} |-> v]
    /\ \E ex \in SortedLists, some \in BOOLEAN :
           tc_ex = IF some THEN SomeExclude(ex) ELSE NoExclude
    /\ tc_out = NoResult
    /\ IdleAT /\ IdleIC /\ IdleGrowth

\* the call total_coverage(&ItemId(0), &exclude)
TCCall ==
    /\ ~tc_out.done
    /\ tc_out' = [done |-> TRUE,
                  res |-> TotalCoverage(tc_v, 0, tc_ex, overflow_checks)]
    /\ UNCHANGED <<overflow_checks, tc_v, tc_ex, atVars, icVars, grVars,
                   callVars, actVars>>

NextTC == TCCall

SpecTC == InitTC /\ [][NextTC]_vars

\* C7: with sorted non-overlapping stored intervals and a sorted
\* non-overlapping exclude list, total_coverage(id, Some(exclude)) is the
\* total length of the stored intervals minus the length of their overlap
\* with the exclude intervals (0 when the exclude list covers them all).
C7_ExcludeSubtractsOverlap ==
    (tc_out.done /\ tc_ex.some /\ 0 \in DOMAIN tc_v) =>
        tc_out.res =
            Cardinality(PositionsOfVec(tc_v[0]) \ PositionsOfVec(tc_ex.v))

----------------------------------------------------------------------------
(* Threshold *)

\* Threshold::Absolute(c), and Threshold::Relative(c) with the f64
\* c = num / den, den a power of two
Absolute(c) == [kind |-> "Absolute", c |-> c, num |-> 0, den |-> 1]
Relative(num, den) == [kind |-> "Relative", c |-> 0, num |-> num, den |-> den]

\* the least integer >= a / b, for a >= 0 and b > 0
CeilDiv(a, b) == (a + b - 1) \div b

\* mutant of ToAbsolute: the product rounded down instead of up
ToAbsolute_Floor(th, n) ==
    IF th.kind = "Absolute" THEN th.c
    ELSE (n * th.num) \div th.den

\* mutant of ToAbsolute: n + c written for n * c
ToAbsolute_Plus(th, n) ==
    IF th.kind = "Absolute" THEN th.c
    ELSE CeilDiv(n * th.den + th.num, th.den)

\* mutant of ToAbsolute: `.round()` written for `.ceil()`
ToAbsolute_Round(th, n) ==
    IF th.kind = "Absolute" THEN th.c
    ELSE (2 * n * th.num + th.den) \div (2 * th.den)

\* An f64 is a significand of 53 bits times a power of two, and every
\* operation rounds its exact result to the nearest such value, ties to
\* even.  The model keeps the rounding and scales the significand down to
\* 4 bits (values below Mantissa).
Mantissa == 2^4

RECURSIVE ScaleUp(_, _)
\* the least s with a * 2^s >= (Mantissa / 2) * b, for a > 0
ScaleUp(a, b) == IF 2 * a >= Mantissa * b THEN 0 ELSE 1 + ScaleUp(2 * a, b)

RECURSIVE ScaleDown(_, _)
\* the least t with a < Mantissa * b * 2^t
ScaleDown(a, b) == IF a < Mantissa * b THEN 0 ELSE 1 + ScaleDown(a, 2 * b)

\* a / b rounded to the nearest integer, ties to even
RoundTiesEven(a, b) ==
    LET q == a \div b
        r == a % b
    IN  IF 2 * r > b \/ (2 * r = b /\ q % 2 = 1) THEN q + 1 ELSE q

RECURSIVE Lowest(_, _)
\* num / den in lowest terms, den a power of two
Lowest(num, den) ==
    IF den > 1 /\ num % 2 = 0 THEN Lowest(num \div 2, den \div 2)
    ELSE [num |-> num, den |-> den]

\* the f64 nearest to num / den >= 0
F64(num, den) ==
    IF num = 0 THEN [num |-> 0, den |-> 1]
    ELSE LET s == ScaleUp(num, den)
             t == ScaleDown(num, den)
         IN  Lowest(RoundTiesEven(num * 2^s, den * 2^t) * 2^t, 2^s)

\* Threshold::to_absolute: `(n as f64 * c).ceil() as usize`
ToAbsolute(th, n) ==
    IF th.kind = "Absolute" THEN th.c
    ELSE LET nf == F64(n, 1)
             p == F64(nf.num * th.num, nf.den * th.den)
         IN  CeilDiv(p.num, p.den)

\* Threshold::to_relative, for n > 0: `*c as f64 / n as f64`
ToRelative(th, n) ==
    IF th.kind = "Relative" THEN [num |-> th.num, den |-> th.den]
    ELSE LET cf == F64(th.c, 1)
             nf == F64(n, 1)
         IN  F64(cf.num * nf.den, cf.den * nf.num)

Max(a, b) == IF a >= b THEN a ELSE b

----------------------------------------------------------------------------
(* ThresholdContainer::parse_params.  A text is a sequence of one-character *)
(* strings.                                                                 *)

RECURSIVE SplitFrom(_, _, _)
\* str::split(','): the tokens of text[i ..], cur being the token begun
SplitFrom(text, i, cur) ==
    IF i > Len(text) THEN <<cur>>
    ELSE IF text[i] = "," THEN <<cur>> \o SplitFrom(text, i + 1, <<>>)
    ELSE SplitFrom(text, i + 1, Append(cur, text[i]))

Split(text) == SplitFrom(text, 1, <<>>)

\* the tokens that parse as a quorum (a fraction in [0, 1]) and as a
\* coverage (a count), with their thresholds
QuorumTokens ==
    <<"0">> :> Relative(0, 1) @@ <<"0", ".", "5">> :> Relative(1, 2)
        @@ <<"1">> :> Relative(1, 1)
CoverageTokens ==
    <<"0">> :> Absolute(0) @@ <<"1">> :> Absolute(1) @@ <<"2">> :> Absolute(2)

\* Err(..): a configuration error, no container
ParseError == NoThresholds

\* mutant of Broadcast: a singleton list is left as it is
Broadcast_Keep(list, len) == list

\* a list of one threshold repeated to the length len, any other list as is
Broadcast(list, len) ==
    IF Len(list) = 1 THEN [i \in 1 .. len |-> list[1]] ELSE list

\* ThresholdContainer::parse_params(quorum, coverage)
ParseParams(quorum, coverage) ==
    LET qs == Split(quorum)
        cs == Split(coverage)
    IN  IF \/ \E i \in DOMAIN qs : qs[i] \notin DOMAIN QuorumTokens
           \/ \E i \in DOMAIN cs : cs[i] \notin DOMAIN CoverageTokens
        THEN ParseError
        ELSE IF Len(qs) # Len(cs) /\ Len(qs) # 1 /\ Len(cs) # 1
        THEN ParseError
        ELSE [ok |-> TRUE,
              coverage |-> Broadcast([i \in DOMAIN cs |-> CoverageTokens[cs[i]]],
                                     Len(qs)),
              quorum |-> Broadcast([i \in DOMAIN qs |-> QuorumTokens[qs[i]]],
                                   Len(cs))]

----------------------------------------------------------------------------
(* GrowthCurveEngine: Hist::calc_all_growths.  A growth value is the exact *)
(* rational num / den; the program holds its f64 approximation.            *)

RECURSIVE Binom(_, _)
Binom(n, k) ==
    IF k < 0 \/ k > n THEN 0
    ELSE IF k = 0 THEN 1
    ELSE (Binom(n - 1, k - 1) * n) \div k

RECURSIVE SumTo(_, _, _)
\* f[from] + ... + f[to]
SumTo(f, from, to) == IF from > to THEN 0 ELSE f[from] + SumTo(f, from + 1, to)

\* the requirement t(m) of a threshold pair at sample size m
Requirement(c_th, q_th, n, m) == Max(ToAbsolute(c_th, n), ToAbsolute(q_th, m))

\* C(N, m) * P(c, m): the number of samples of m of the n paths in which an
\* item of coverage c appears at least t times
Meeting(c, n, m, t) ==
    Binom(n, m)
      - SumTo([k \in 0 .. (t - 1) |-> Binom(c, k) * Binom(n - c, m - k)], 0, t - 1)

\* GrowthCurve[m] for one threshold pair
GrowthAt(coverage, n, c_th, q_th, m) ==
    LET t == Requirement(c_th, q_th, n, m)
    IN  [num |-> SumTo([i \in DOMAIN coverage |-> Meeting(coverage[i], n, m, t)],
                       1, Len(coverage)),
         den |-> Binom(n, m)]

\* Hist::calc_all_growths: one row per threshold pair, one column per m
CalcAllGrowths(coverage, n, aux) ==
    [i \in DOMAIN aux.coverage |->
        [m \in 1 .. n |-> GrowthAt(coverage, n, aux.coverage[i], aux.quorum[i], m)]]

\* ThresholdContainer::has_full_growth_at_idx: the index of the pair
\* "coverage >= 1, quorum 0" (0 when there is none)
HasFullGrowthAtIdx(aux) ==
    LET full == {i \in DOMAIN aux.coverage :
                    /\ aux.coverage[i] = Absolute(1)
                    /\ aux.quorum[i].kind = "Relative" /\ aux.quorum[i].num = 0}
    IN  IF full = {} THEN 0 ELSE CHOOSE i \in full : \A j \in full : i <= j

\* a <= b and a < b on rationals with positive denominators
RatLeq(a, b) == a.num * b.den <= b.num * a.den
RatLess(a, b) == a.num * b.den < b.num * a.den

----------------------------------------------------------------------------
(* HeapsCurveFitter: get_regression and the fit of Growth::set_inner.  An   *)
(* f64 is NaN or the exact rational num / den it approximates; an infinite  *)
(* k only ever enters a curve value as inf - inf, which is NaN.             *)

RECURSIVE Gcd(_, _)
Gcd(a, b) == IF b = 0 THEN a ELSE Gcd(b, a % b)

\* n / d, kept in lowest terms
Rat(n, d) ==
    LET g == Gcd(IF n < 0 THEN 0 - n ELSE n, IF d < 0 THEN 0 - d ELSE d)
    IN  IF g = 0 THEN [num |-> n, den |-> d]
        ELSE [num |-> n \div g, den |-> d \div g]
RatAdd(a, b) == Rat(a.num * b.den + b.num * a.den, a.den * b.den)
RatSub(a, b) == Rat(a.num * b.den - b.num * a.den, a.den * b.den)
RatMul(a, b) == Rat(a.num * b.num, a.den * b.den)
\* a / b for b # 0, the denominator kept positive
RatDiv(a, b) ==
    IF b.num > 0 THEN Rat(a.num * b.den, a.den * b.num)
    ELSE Rat(0 - a.num * b.den, 0 - a.den * b.num)
RatEq(a, b) == a.num * b.den = b.num * a.den

\* f64::powf(x, g) for an integer x >= 1 and an integer exponent g
Powf(x, g) == IF g >= 0 THEN Rat(x ^ g, 1) ELSE Rat(1, x ^ (0 - g))

NaN == [nan |-> TRUE, num |-> 0, den |-> 1]
Fin(r) == [nan |-> FALSE, num |-> r.num, den |-> r.den]

\* the values of alpha of the model: exponents gamma = 1 - alpha of 0 and
\* -1, and the closed case alpha >= 10
Alpha(v) == [nan |-> FALSE, v |-> v]
AlphaNaN == [nan |-> TRUE, v |-> 0]
FiniteAlphas == {Alpha(1), Alpha(2), Alpha(10)}

\* the number of log-pairs get_regression hands to the solver:
\* x = 1 .. len-1, then skip(1).take(max(len / 2, 10))
LogPairs(len) ==
    LET n == Max(len \div 2, 10)
        after_skip == Max(len - 2, 0)
    IN  IF after_skip < n THEN after_skip ELSE n

\* get_regression(hist): alpha = 2 + slope of the Huber regression of an
\* external solver.  A regression over at least two points with distinct
\* x has a finite slope; over fewer points the slope is whatever the
\* solver yields, NaN included.
GetRegression(hist) ==
    IF LogPairs(Len(hist)) >= 2 THEN FiniteAlphas
    ELSE FiniteAlphas \cup {AlphaNaN}

NoCurve == [some |-> FALSE, values |-> <<>>]

\* the two anchors of the fit: x1 = 2.0 with y1 = growth[1], and
\* x2 = growth.len() - 1 with y2 = *growth.last(); i1 and i2 are the
\* 0-based indices of the vector the y values are read at
Anchors(growth) ==
    [x1 |-> 2, i1 |-> 1, x2 |-> Len(growth) - 1, i2 |-> Len(growth) - 1]

\* the fit of one count type: the closure of set_inner over the baseline
\* growth curve `growth` (at least two entries) and the alpha of the
\* histogram; `closed` is the alpha from which no curve is fitted
HeapsFitAt(growth, alpha, closed) ==
    LET growth_len == Len(growth)
        x1 == Anchors(growth).x1
        y1 == growth[Anchors(growth).i1 + 1]
        x2 == Anchors(growth).x2
        y2 == growth[Anchors(growth).i2 + 1]
        gamma == 1 - alpha.v
        d == RatSub(Powf(x1, gamma), Powf(x2, gamma))
        k == RatDiv(RatSub(y1, y2), d)
        c == RatSub(y1, RatMul(k, Powf(x1, gamma)))
    IN  IF ~alpha.nan /\ alpha.v >= closed
        THEN [alpha |-> alpha, curve |-> NoCurve]
        ELSE IF alpha.nan \/ d.num = 0
        THEN [alpha |-> alpha,
              curve |-> [some |-> TRUE,
                         values |-> [x \in 1 .. growth_len |-> NaN]]]
        ELSE [alpha |-> alpha,
              curve |-> [some |-> TRUE,
                         values |-> [x \in 1 .. growth_len |->
                                       Fin(RatAdd(RatMul(Powf(x, gamma), k), c))]]]

\* mutant of HeapsFit: the threshold 1 of the TODO in place of 10
HeapsFit_ClosedAtOne(growth, alpha) == HeapsFitAt(growth, alpha, 1)

\* `if alpha >= 10.0 { (alpha, None) } else { ... }`
HeapsFit(growth, alpha) == HeapsFitAt(growth, alpha, 10)

----------------------------------------------------------------------------
(* SpecGrowth: a Growth object over the histograms of a graph *)

CountTypes == <<"node", "edge">>

Text(t) == [some |-> TRUE, text |-> t]

\* the coverage and quorum texts of AnalysisParameter::Growth (None: the
\* default of set_inner applies)
CoverageTexts == {NoText, Text(<<"2">>), Text(<<"x">>)}
QuorumTexts == {NoText, Text(<<"0", ".", "5">>), Text(<<"1">>)}

\* `quorum.to_owned().unwrap_or("0")`, `coverage.to_owned().unwrap_or("1")`
UnwrapOr(opt, default) == IF opt.some THEN opt.text ELSE default

\* the ThresholdContainer set_inner and generate_table_from_hist parse
ParsedParameter(par) ==
    ParseParams(UnwrapOr(par.quorum, <<"0">>), UnwrapOr(par.coverage, <<"1">>))

\* the coverage counts of MaxItems items on n paths; a growth value is a
\* sum over the items, so the items are listed by falling count
CoverageCounts(n) ==
    {c \in [1 .. MaxItems -> 1 .. n] :
        \A i \in 1 .. (MaxItems - 1) : c[i] >= c[i + 1]}

\* the permutations of 1 .. k
Orders(k) ==
    {p \in [1 .. k -> 1 .. k] : \A i \in 1 .. k : \E j \in 1 .. k : p[j] = i}

\* Growth::from_parameter, with the thresholds of its parameter and the
\* graph broker it is called with
InitGrowth ==
    /\ overflow_checks = FALSE
    /\ \E n \in 1 .. MaxN :
         \E cs \in [1 .. Len(CountTypes) -> CoverageCounts(n)] :
           hists = [n |-> n,
                    list |-> [i \in 1 .. Len(CountTypes) |->
                                 [count |-> CountTypes[i], coverage |-> cs[i]]]]
    /\ \E c \in CoverageTexts, q \in QuorumTexts :
           parameter = [coverage |-> c, quorum |-> q]
    /\ hist_aux = ParsedParameter(parameter)
    /\ inner = NoInner
    /\ gr_ret = NoGrowthCall
    /\ IdleAT /\ IdleIC /\ IdleTC /\ IdleCall /\ IdleAct

\* the results `(h.count, h.calc_all_growths(&hist_aux))` of the parallel
\* tasks, one per histogram
TaskResults ==
    [i \in DOMAIN hists.list |->
        [count |-> hists.list[i].count,
         rows |-> CalcAllGrowths(hists.list[i].coverage, hists.n, hist_aux)]]

\* the InnerGrowth set_inner stores: the results `tasks` collected in the
\* order `order` in which the parallel tasks deliver them, and one Heaps fit
\* per (growth, histogram) pair of the zip, alphas[i] being the regression
\* of the i-th histogram
ComputeInner(tasks, order, alphas) ==
    LET growths == [i \in DOMAIN tasks |-> tasks[order[i]]]
        index == HasFullGrowthAtIdx(hist_aux)
    IN  [some |-> TRUE,
         growths |-> growths,
         hist_aux |-> hist_aux,
         heaps_curves |->
             IF index = 0 THEN <<>>
             ELSE [i \in DOMAIN growths |->
                      [growth_of |-> growths[i].count,
                       hist_of |-> hists.list[i].count,
                       fit |-> HeapsFit(growths[i].rows[index], alphas[i])]]]

\* Hist::coverage, the vector get_regression reads: entry c (0 .. n) is the
\* number of items that lie on c paths
HistOf(coverage, n) ==
    [c \in 1 .. (n + 1) |->
        Cardinality({i \in DOMAIN coverage : coverage[i] = c - 1})]

\* the completion orders of the tasks, drawn only where set_inner computes
Completions ==
    IF hist_aux.ok /\ ~inner.some THEN Orders(Len(hists.list))
    ELSE {[i \in DOMAIN hists.list |-> i]}

\* the regressions of the histograms, drawn only where a fit is made
Regressions ==
    IF hist_aux.ok /\ ~inner.some /\ HasFullGrowthAtIdx(hist_aux) # 0
    THEN {al \in [DOMAIN hists.list -> FiniteAlphas \cup {AlphaNaN}] :
             \A i \in DOMAIN hists.list :
                 al[i] \in GetRegression(HistOf(hists.list[i].coverage,
                                                 hists.n))}
    ELSE {[i \in DOMAIN hists.list |-> AlphaNaN]}

\* set_inner past its early return: parse_params(..)?, `unimplemented!`
\* without a graph broker, then the growths and the fits.  With a
\* full-growth index and a growth curve of one entry, `growth[1]` is out of
\* bounds.
FillInner(cur, gb, tasks, order, alphas) ==
    IF ~hist_aux.ok THEN [res |-> "Err_Config", inner |-> cur, computed |-> FALSE]
    ELSE IF ~gb THEN [res |-> "panic", inner |-> cur, computed |-> FALSE]
    ELSE IF HasFullGrowthAtIdx(hist_aux) # 0 /\ hists.n < 2
    THEN [res |-> "panic", inner |-> cur, computed |-> TRUE]
    ELSE [res |-> "Ok", inner |-> ComputeInner(tasks, order, alphas),
          computed |-> TRUE]

\* mutant of SetInnerFn: no early return on a filled inner
SetInnerFn_Recompute(cur, gb, tasks, order, alphas) ==
    FillInner(cur, gb, tasks, order, alphas)

\* Growth::set_inner(gb) on the inner `cur`: its result, the inner it
\* leaves and whether it computed growths.  gb is whether a graph broker is
\* given.
SetInnerFn(cur, gb, tasks, order, alphas) ==
    IF cur.some THEN [res |-> "Ok", inner |-> cur, computed |-> FALSE]
    ELSE FillInner(cur, gb, tasks, order, alphas)

\* Growth::generate_table(dm): set_inner(dm)?, then the hists of the graph,
\* `dm.expect("Growth needs either hist file or graph")`
GenerateTableFn(cur, dm, tasks, order, alphas) ==
    LET r == SetInnerFn(cur, dm, tasks, order, alphas)
    IN  IF r.res = "Ok" /\ ~dm THEN [r EXCEPT !.res = "panic"] ELSE r

\* Growth::generate_report_section(dm): set_inner(dm)?, generate_table(dm)?,
\* then `dm.expect("Growth should be called with a graph")`
GenerateReportSectionFn(cur, dm, tasks, order, alphas) ==
    LET r == SetInnerFn(cur, dm, tasks, order, alphas)
        t == GenerateTableFn(r.inner, dm, tasks, order, alphas)
    IN  IF r.res # "Ok" THEN r
        ELSE [t EXCEPT !.computed = r.computed \/ t.computed]

\* a call on the Growth object ending as `r`; it opens no file
GrowthCall(r) ==
    /\ inner' = r.inner
    /\ gr_ret' = [res |-> r.res, opened |-> FALSE, computed |-> r.computed]
    /\ UNCHANGED <<overflow_checks, hists, hist_aux, parameter,
                   atVars, icVars, tcVars, callVars, actVars>>

\* a panic ends the use of the object
CanCall == gr_ret.res # "panic"

\* Growth::set_inner(gb)
SetInner(gb) ==
    /\ CanCall
    /\ LET tasks == TaskResults
       IN  \E order \in Completions, alphas \in Regressions :
               GrowthCall(SetInnerFn(inner, gb, tasks, order, alphas))

GenerateTable(dm) ==
    /\ CanCall
    /\ LET tasks == TaskResults
       IN  \E order \in Completions, alphas \in Regressions :
               GrowthCall(GenerateTableFn(inner, dm, tasks, order, alphas))

GenerateReportSection(dm) ==
    /\ CanCall
    /\ LET tasks == TaskResults
       IN  \E order \in Completions, alphas \in Regressions :
               GrowthCall(GenerateReportSectionFn(inner, dm, tasks, order, alphas))

\* mutant of FromHistFn: the file is opened before the thresholds are parsed
FromHistFn_OpenFirst(aux, io_ok) ==
    IF ~aux.ok THEN [res |-> "Err_Config", opened |-> TRUE, computed |-> FALSE]
    ELSE IF ~io_ok THEN [res |-> "Err_Io", opened |-> TRUE, computed |-> FALSE]
    ELSE [res |-> "Ok", opened |-> TRUE, computed |-> TRUE]

\* Growth::generate_table_from_hist(file): parse_params(..)?, File::open and
\* parse_hists (io_ok: both succeed), then the growths of the file's
\* histograms; inner is not touched
FromHistFn(aux, io_ok) ==
    IF ~aux.ok THEN [res |-> "Err_Config", opened |-> FALSE, computed |-> FALSE]
    ELSE IF ~io_ok THEN [res |-> "Err_Io", opened |-> TRUE, computed |-> FALSE]
    ELSE [res |-> "Ok", opened |-> TRUE, computed |-> TRUE]

GenerateTableFromHist ==
    /\ CanCall
    /\ \E io_ok \in BOOLEAN :
         LET r == FromHistFn(ParsedParameter(parameter), io_ok)
         IN  gr_ret' = r
    /\ UNCHANGED <<overflow_checks, hists, hist_aux, inner, parameter,
                   atVars, icVars, tcVars, callVars, actVars>>

NextGrowth ==
    \/ \E gb \in BOOLEAN : SetInner(gb)
    \/ \E dm \in BOOLEAN : GenerateTable(dm)
    \/ \E dm \in BOOLEAN : GenerateReportSection(dm)
    \/ GenerateTableFromHist

SpecGrowth == InitGrowth /\ [][NextGrowth]_vars

----------------------------------------------------------------------------
(* Claims about the growth curves, checked under SpecGrowth *)

\* the requirement t(m) = max(t_c, ceil(m * q)) of the i-th threshold pair
PairRequirement(i, m) ==
    Max(hist_aux.coverage[i].c,
        CeilDiv(m * hist_aux.quorum[i].num, hist_aux.quorum[i].den))

CoverageOf(count) ==
    LET i == CHOOSE i \in DOMAIN hists.list : hists.list[i].count = count
    IN  hists.list[i].coverage

----------------------------------------------------------------------------
(* Claims about the Growth object, checked under SpecGrowth *)

\* C12: for every count type, the Heaps fit Growth reports for it (the fit
\* at the position of that count type's growths) is computed from that same
\* count type's histogram and that same count type's baseline growth curve,
\* in every completion order of the parallel tasks.
C12_HeapsFitOfSameCountType ==
    inner.some =>
        \A i \in DOMAIN inner.heaps_curves :
            /\ inner.heaps_curves[i].growth_of = inner.growths[i].count
            /\ inner.heaps_curves[i].hist_of = inner.growths[i].count

\* C13 as stated: once inner is filled, every later generate_table or
\* generate_report_section call, with or without a graph broker, returns
\* without recomputing and leaves growths, thresholds and heaps_curves
\* unchanged.
C13_ComputedAtMostOnce ==
    [][\A dm \in BOOLEAN :
          (inner.some /\ (GenerateTable(dm) \/ GenerateReportSection(dm))) =>
              /\ inner' = inner
              /\ ~gr_ret'.computed
              /\ gr_ret'.res = "Ok"]_vars

\* C13 as amended: once inner is filled, every later generate_table or
\* generate_report_section call leaves growths, thresholds and heaps_curves
\* unchanged and computes nothing; it returns when it is given a graph
\* broker, and panics on its `expect` when it is given none.
C13_ComputedAtMostOnceWithBroker ==
    [][\A dm \in BOOLEAN :
          (inner.some /\ (GenerateTable(dm) \/ GenerateReportSection(dm))) =>
              /\ inner' = inner
              /\ ~gr_ret'.computed
              /\ gr_ret'.res = (IF dm THEN "Ok" ELSE "panic")]_vars

\* C13 witness: a filled inner with two different growth results whose last
\* call returned from the cache (nothing computed, no file opened).
C13_Witness ==
    /\ inner.some
    /\ inner.growths[1].rows # inner.growths[2].rows
    /\ gr_ret = [res |-> "Ok", opened |-> FALSE, computed |-> FALSE]

\* C14: if threshold parsing fails, Growth returns the error and stores no
\* partial result: inner stays unset, and generate_table_from_hist fails
\* before any histogram is read or any growth is computed.
C14_ParseFailureStoresNothing ==
    ~ParsedParameter(parameter).ok =>
        /\ inner = NoInner
        /\ gr_ret \in {NoGrowthCall,
                        [res |-> "Err_Config", opened |-> FALSE,
                         computed |-> FALSE]}

\* C14 witness: a call on a Growth object whose coverage text does not
\* parse has returned the configuration error.
C14_Witness ==
    /\ parameter.coverage = Text(<<"x">>)
    /\ gr_ret.res = "Err_Config"
    /\ inner = NoInner

----------------------------------------------------------------------------
(* SpecParse: ThresholdContainer::parse_params applied to drawn texts *)

RECURSIVE Join(_)
\* the tokens joined with commas, as the user writes a threshold list
Join(tokens) ==
    IF Len(tokens) = 1 THEN tokens[1]
    ELSE tokens[1] \o <<",">> \o Join(Tail(tokens))

TokenLists(tokens) == UNION {[1 .. k -> tokens] : k \in 1 .. MaxTokens}
QuorumLists == {Join(l) : l \in TokenLists({<<"0">>, <<"0", ".", "5">>, <<"x">>})}
CoverageLists == {Join(l) : l \in TokenLists({<<"1">>, <<"2">>, <<"x">>})}

InitParse ==
    /\ overflow_checks = FALSE
    /\ \E q \in QuorumLists, c \in CoverageLists :
           call_in = [f |-> "parse_params", quorum |-> q, coverage |-> c]
    /\ call_out = NoResult
    /\ IdleAT /\ IdleIC /\ IdleTC /\ IdleAct
    /\ hists = NoHists /\ hist_aux = NoThresholds /\ inner = NoInner
    /\ parameter = [coverage |-> NoText, quorum |-> NoText]
    /\ gr_ret = NoGrowthCall

\* let hist_aux = ThresholdContainer::parse_params(quorum, coverage)
ParseParamsCall ==
    /\ call_in.f = "parse_params"
    /\ ~call_out.done
    /\ call_out' = [done |-> TRUE,
                    res |-> ParseParams(call_in.quorum, call_in.coverage)]
    /\ UNCHANGED <<overflow_checks, call_in, atVars, icVars, tcVars, grVars,
                   actVars>>

NextParse == ParseParamsCall

SpecParse == InitParse /\ [][NextParse]_vars

\* the number of tokens of a text: its commas plus one
TokenCount(text) == Cardinality({i \in DOMAIN text : text[i] = ","}) + 1

\* C15: parse_params always yields coverage and quorum lists of equal
\* length; a list with one token is repeated to the length of the other
\* list; parsing fails with a configuration error when the two lists have
\* different lengths and neither has length 1.
C15_ListsOfEqualLength ==
    (call_in.f = "parse_params" /\ call_out.done) =>
        LET nq == TokenCount(call_in.quorum)
            nc == TokenCount(call_in.coverage)
            res == call_out.res
        IN  /\ res.ok =>
                  /\ Len(res.coverage) = Len(res.quorum)
                  /\ Len(res.quorum) = Max(nq, nc)
                  /\ nq = 1 => \A i \in DOMAIN res.quorum :
                                   res.quorum[i] = QuorumTokens[call_in.quorum]
                  /\ nc = 1 => \A i \in DOMAIN res.coverage :
                                   res.coverage[i] = CoverageTokens[call_in.coverage]
            /\ (nq # nc /\ nq # 1 /\ nc # 1) => res = ParseError

\* C15 witness: one quorum token against three coverage tokens has parsed
\* into three quorums.
C15_Witness ==
    /\ call_in.f = "parse_params" /\ call_out.done
    /\ TokenCount(call_in.quorum) = 1
    /\ TokenCount(call_in.coverage) = 3
    /\ call_out.res.ok
    /\ Len(call_out.res.quorum) = 3

----------------------------------------------------------------------------
(* SpecHeaps: the Heaps fit of one count type applied to drawn histograms *)

\* the full-growth baseline curve: coverage >= 1, quorum 0
Baseline(coverage, n) ==
    [m \in 1 .. n |-> GrowthAt(coverage, n, Absolute(1), Relative(0, 1), m)]

NoFit == [alpha |-> AlphaNaN, curve |-> NoCurve]

\* one run of the closure of heaps_curves: `growth[1]` panics on a curve of
\* one entry, before the regression is made
HeapsFitFn(coverage, n, alpha) ==
    IF n < 2 THEN [done |-> TRUE, res |-> "panic", fit |-> NoFit]
    ELSE [done |-> TRUE, res |-> "Ok",
          fit |-> HeapsFit(Baseline(coverage, n), alpha)]

InitHeaps ==
    /\ overflow_checks = FALSE
    /\ \E n \in 1 .. MaxHeapsN :
         \E coverage \in CoverageCounts(n) :
           call_in = [f |-> "heaps", n |-> n, coverage |-> coverage]
    /\ call_out = NoResult
    /\ IdleAT /\ IdleIC /\ IdleTC /\ IdleAct
    /\ hists = NoHists /\ hist_aux = NoThresholds /\ inner = NoInner
    /\ parameter = [coverage |-> NoText, quorum |-> NoText]
    /\ gr_ret = NoGrowthCall

\* the closure applied to one (growth, hist) pair, with the alpha the
\* regression of the histogram yields
HeapsFitCall ==
    /\ call_in.f = "heaps"
    /\ ~call_out.done
    /\ \E alpha \in GetRegression(HistOf(call_in.coverage, call_in.n)) :
           call_out' = HeapsFitFn(call_in.coverage, call_in.n, alpha)
    /\ UNCHANGED <<overflow_checks, call_in, atVars, icVars, tcVars, grVars,
                   actVars>>

NextHeaps == HeapsFitCall

SpecHeaps == InitHeaps /\ [][NextHeaps]_vars

\* the fit has been made and stored
FitStored == call_in.f = "heaps" /\ call_out.done /\ call_out.res = "Ok"

\* x1^gamma - x2^gamma of the stored fit, for a finite alpha
AnchorGap ==
    RatSub(Powf(2, 1 - call_out.fit.alpha.v),
           Powf(call_in.n - 1, 1 - call_out.fit.alpha.v))

\* C16: a Heaps fit has no fitted curve exactly when alpha >= 10; when
\* alpha < 10 the curve is present, as long as the baseline growth curve,
\* and its value at x = 1..N is f(x) = k*x^gamma + c, the power law through
\* the anchors (x1, y1) and (x2, y2): (f(x) - y1) * (x1^gamma - x2^gamma) =
\* (y1 - y2) * (x^gamma - x1^gamma), not a number where k is not one.
C16_CurveExactlyBelowTen ==
    FitStored =>
        LET fit == call_out.fit
            growth == Baseline(call_in.coverage, call_in.n)
            gamma == 1 - fit.alpha.v
            y1 == growth[2]
            y2 == growth[Len(growth)]
        IN  /\ ~fit.curve.some <=> (~fit.alpha.nan /\ fit.alpha.v >= 10)
            /\ (~fit.alpha.nan /\ fit.alpha.v < 10) =>
                  /\ fit.curve.some
                  /\ Len(fit.curve.values) = Len(growth)
                  /\ \A x \in 1 .. Len(growth) :
                        IF AnchorGap.num = 0 THEN fit.curve.values[x].nan
                        ELSE /\ ~fit.curve.values[x].nan
                             /\ RatEq(RatMul(RatSub(fit.curve.values[x], y1),
                                             AnchorGap),
                                      RatMul(RatSub(y1, y2),
                                             RatSub(Powf(x, gamma),
                                                    Powf(2, gamma))))

\* C16 witness: a curve of five finite values, not all equal, fitted with
\* alpha = 2 on five paths.
C16_Witness ==
    /\ FitStored
    /\ call_out.fit.alpha = Alpha(2)
    /\ call_out.fit.curve.some
    /\ Len(call_out.fit.curve.values) = 5
    /\ \A x \in 1 .. 5 : ~call_out.fit.curve.values[x].nan
    /\ ~RatEq(call_out.fit.curve.values[1], call_out.fit.curve.values[5])

\* C17: no NaN or infinite value is stored in a Heaps fit: with fewer than
\* two usable log-pairs (histogram length <= 3), coinciding anchors
\* (x1 = x2), gamma = 0, or a growth curve of fewer than two entries, the
\* fit fails instead of producing an alpha or a curve.
C17_NoNaNInStoredFit ==
    (call_in.f = "heaps" /\ call_out.done) =>
        /\ FitStored =>
              /\ ~call_out.fit.alpha.nan
              /\ call_out.fit.curve.some =>
                    \A x \in DOMAIN call_out.fit.curve.values :
                        ~call_out.fit.curve.values[x].nan
        /\ ( \/ Len(HistOf(call_in.coverage, call_in.n)) <= 3
             \/ call_in.n - 1 = 2
             \/ call_in.n < 2
             \/ (call_out.res = "Ok" /\ call_out.fit.alpha = Alpha(1)) )
              => call_out.res # "Ok"

----------------------------------------------------------------------------
(* SpecThreshold: to_absolute and to_relative applied to drawn thresholds *)

\* the f64 values in [0, 1] a quorum text of a small fraction parses to
Fractions == UNION {{F64(a, b) : a \in 0 .. b} : b \in 1 .. MaxThN}

InitThreshold ==
    /\ overflow_checks = FALSE
    /\ \E n \in 1 .. MaxThN :
         \E th \in {Absolute(k) : k \in 0 .. n}
                     \cup {Relative(c.num, c.den) : c \in Fractions} :
           call_in = [f |-> "threshold", th |-> th, n |-> n]
    /\ call_out = NoResult
    /\ IdleAT /\ IdleIC /\ IdleTC /\ IdleAct
    /\ hists = NoHists /\ hist_aux = NoThresholds /\ inner = NoInner
    /\ parameter = [coverage |-> NoText, quorum |-> NoText]
    /\ gr_ret = NoGrowthCall

\* th.to_absolute(n), th.to_relative(n), and the threshold of the other
\* kind converted back with the same n
ThresholdCall ==
    /\ call_in.f = "threshold"
    /\ ~call_out.done
    /\ LET abs == ToAbsolute(call_in.th, call_in.n)
           rel == ToRelative(call_in.th, call_in.n)
       IN  call_out' =
             [done |-> TRUE, abs |-> abs, rel |-> rel,
              abs_back |-> ToAbsolute(Relative(rel.num, rel.den), call_in.n),
              rel_back |-> ToRelative(Absolute(abs), call_in.n)]
    /\ UNCHANGED <<overflow_checks, call_in, atVars, icVars, tcVars, grVars,
                   actVars>>

NextThreshold == ThresholdCall

SpecThreshold == InitThreshold /\ [][NextThreshold]_vars

ThresholdDone == call_in.f = "threshold" /\ call_out.done

\* num / den is an f64: a significand below Mantissa times a power of two
IsF64(num, den) ==
    \E m \in 0 .. Mantissa, s \in 0 .. Mantissa : num * 2^s = m * den

\* C18 as stated: Relative(c).to_absolute(n) = ceil(n * c) for every c in
\* [0, 1] and every n, and Absolute(k).to_absolute(n) = k.
C18_ToAbsoluteIsCeil ==
    ThresholdDone =>
        IF call_in.th.kind = "Relative"
        THEN call_out.abs = CeilDiv(call_in.n * call_in.th.num, call_in.th.den)
        ELSE call_out.abs = call_in.th.c

\* C18 as amended: Relative(c).to_absolute(n) is the ceiling of the f64
\* product: ceil(n * c) whenever n * c is an f64, and otherwise ceil(n * c)
\* or ceil(n * c) - 1; Absolute(k).to_absolute(n) = k.
C18_ToAbsoluteIsCeilOfF64Product ==
    ThresholdDone =>
        LET num == call_in.n * call_in.th.num
            den == call_in.th.den
        IN  IF call_in.th.kind = "Relative"
            THEN /\ call_out.abs \in {CeilDiv(num, den), CeilDiv(num, den) - 1}
                 /\ call_out.abs >= 0
                 /\ IsF64(num, den) => call_out.abs = CeilDiv(num, den)
            ELSE call_out.abs = call_in.th.c

\* C18 witness: a product n * c just above an integer has been rounded to
\* that integer, so that to_absolute returned ceil(n * c) - 1.
C18_Witness ==
    /\ ThresholdDone
    /\ call_in.th.kind = "Relative"
    /\ call_out.abs > 0
    /\ call_out.abs = CeilDiv(call_in.n * call_in.th.num, call_in.th.den) - 1

\* C19: for a fixed n > 0, to_relative is the inverse of to_absolute:
\* Relative(Absolute(k).to_relative(n)).to_absolute(n) = k for 0 <= k <= n,
\* and Absolute(Relative(c).to_absolute(n)).to_relative(n) = c for c in
\* [0, 1].
C19_ToRelativeInvertsToAbsolute ==
    ThresholdDone =>
        IF call_in.th.kind = "Absolute"
        THEN call_out.abs_back = call_in.th.c
        ELSE call_out.rel_back.num * call_in.th.den
                 = call_in.th.num * call_out.rel_back.den

----------------------------------------------------------------------------
(* SpecActivate: two callers of ActiveTable::activate on one Vec<bool>.    *)
(* `self.items[id] |= true` is a read of the element followed by a write,  *)
(* and the two callers' reads and writes interleave in every order.        *)

Callers == {1, 2}

\* the calls of one caller, in its program order
ActCalls == UNION {[1 .. k -> Ids] : k \in 0 .. MaxActs}

\* mutant of WriteBit: `^= true` written for `|= true`
WriteBit_Toggle(old) == ~old

\* the value `|= true` writes back, given the value it has read
WriteBit(old) == old \/ TRUE

InitActivate ==
    /\ overflow_checks = FALSE
    /\ \E init \in [Ids -> BOOLEAN], calls \in [Callers -> ActCalls] :
         /\ act_items = [init |-> init, cur |-> init, calls |-> calls]
         /\ act_pc = [c \in Callers |-> [todo |-> calls[c], step |-> "read"]]
    /\ act_tmp = [c \in Callers |-> FALSE]
    /\ IdleAT /\ IdleIC /\ IdleTC /\ IdleCall
    /\ hists = NoHists /\ hist_aux = NoThresholds /\ inner = NoInner
    /\ parameter = [coverage |-> NoText, quorum |-> NoText]
    /\ gr_ret = NoGrowthCall

\* caller c reads self.items[id]
ActRead(c) ==
    /\ act_pc # <<>>
    /\ act_pc[c].step = "read"
    /\ act_pc[c].todo # <<>>
    /\ act_tmp' = [act_tmp EXCEPT ![c] = act_items.cur[Head(act_pc[c].todo)]]
    /\ act_pc' = [act_pc EXCEPT ![c].step = "write"]
    /\ UNCHANGED <<overflow_checks, act_items, atVars, icVars, tcVars, grVars,
                   callVars>>

\* caller c writes self.items[id] and returns from activate
ActWrite(c) ==
    /\ act_pc # <<>>
    /\ act_pc[c].step = "write"
    /\ act_items' = [act_items EXCEPT
                        !.cur[Head(act_pc[c].todo)] = WriteBit(act_tmp[c])]
    /\ act_pc' = [act_pc EXCEPT ![c] = [todo |-> Tail(act_pc[c].todo),
                                        step |-> "read"]]
    /\ UNCHANGED <<overflow_checks, act_tmp, atVars, icVars, tcVars, grVars,
                   callVars>>

NextActivate ==
    \/ \E c \in Callers : ActRead(c)
    \/ \E c \in Callers : ActWrite(c)

SpecActivate == InitActivate /\ [][NextActivate]_vars

\* every call of every caller has returned
AllActivated ==
    /\ act_pc # <<>>
    /\ \A c \in Callers : act_pc[c].todo = <<>>

\* the ids some call activates
ActivatedIds ==
    UNION {{act_items.calls[c][i] : i \in DOMAIN act_items.calls[c]} :
              c \in Callers}

\* C20: bitset activation is idempotent and order-independent: for any
\* multiset of activate(id) calls, every interleaving, those of the read and
\* the write of the same bit by two callers included, ends with exactly the
\* activated ids set true and all other bits unchanged.
C20_ActivationOrderIndependent ==
    AllActivated =>
        \A id \in Ids :
            act_items.cur[id] = (act_items.init[id] \/ id \in ActivatedIds)

\* C20 witness: both callers have activated id 0 of a table with no bit
\* set, each having read the bit before the other wrote it.
C20_Witness ==
    /\ AllActivated
    /\ act_items.calls = [c \in Callers |-> <<0>>]
    /\ act_items.init = [id \in Ids |-> FALSE]
    /\ act_tmp = [c \in Callers |-> FALSE]
    /\ act_items.cur = [id \in Ids |-> id = 0]

----------------------------------------------------------------------------
(* Further claims about ActiveTable, checked under Spec *)

\* the last call was activate_n_annotate with end - start = item_len
LastCoversItem ==
    /\ last.op = "activate_n_annotate"
    /\ last.start <= last.end
    /\ last.end - last.start = last.item_len

\* C21: activate_n_annotate with end - start == item_len on an annotated
\* table sets the item's bit and removes any partial interval record stored
\* for that id, so that afterwards the id is absent from the annotation map.
C21_FullIntervalDropsRecord ==
    (LastCoversItem /\ annotation.some) =>
        /\ ret = "Ok"
        /\ items[last.id]
        /\ last.id \notin DOMAIN annotation.map

\* C21 witness: a full-length call has removed a partial record of its id
\* (the annotation map changed) and set the bit.
C21_Witness ==
    /\ LastCoversItem /\ annotation.some
    /\ last.annotation_changed
    /\ last.items_changed
    /\ items[last.id]

\* C28: no ActiveTable operation resets a bit: an item's bit that is true
\* stays true after every later activate and activate_n_annotate call,
\* whether the call succeeds, is skipped as malformed or returns
\* NoAnnotation.
C28_BitsNeverReset ==
    [][\A id \in Ids : items[id] => items'[id]]_vars

\* C28 witness: a call on an item whose bit was already set, skipped as
\* malformed or answered with NoAnnotation, has left the bit set.
C28_Witness ==
    /\ last.op = "activate_n_annotate"
    /\ items[last.id]
    /\ ~last.items_changed
    /\ \/ ret = "Err_NoAnnotation"
       \/ ret = "Ok" /\ last.start > last.end

\* the table after one call that returns; op.kind is the function called
ApplyOp(tab, op) ==
    IF op.kind = "activate"
    THEN [items |-> [tab.items EXCEPT ![op.id] = TRUE],
          annotation |-> tab.annotation, ret |-> "Ok"]
    ELSE ActivateNAnnotateFn(tab.items, tab.annotation, op.id,
                             item_lens[op.id], op.start, op.end,
                             overflow_checks)

\* the calls a worker can make on the item id
OpsOn(id) ==
    {[kind |-> "activate", id |-> id, start |-> 0, end |-> 0]}
    \cup {[kind |-> "activate_n_annotate", id |-> id, start |-> st, end |-> en] :
             st \in 0 .. item_lens[id], en \in 0 .. item_lens[id]}

\* the stored intervals of id, or the empty sequence
EntryOf(ann, id) ==
    IF ann.some /\ id \in DOMAIN ann.map THEN <<ann.map[id]>> ELSE <<>>

\* two calls on different ids, both of which return, leave the same table
\* in either order
CallsCommute ==
    (ret # "panic" /\ nops + 2 <= MaxOps) =>
        \A x \in Ids, y \in Ids :
            x < y =>
                \A a \in OpsOn(x), b \in OpsOn(y) :
                    LET tab == [items |-> items, annotation |-> annotation,
                                ret |-> ret]
                        ta == ApplyOp(tab, a)
                        tb == ApplyOp(tab, b)
                        tab_ab == ApplyOp(ta, b)
                        tab_ba == ApplyOp(tb, a)
                    IN  (ta.ret # "panic" /\ tb.ret # "panic") =>
                            /\ tab_ab.items = tab_ba.items
                            /\ tab_ab.annotation = tab_ba.annotation
                            /\ tab_ab.ret = tb.ret
                            /\ tab_ba.ret = ta.ret

\* C29: operations are local to their item id: activate and
\* activate_n_annotate on id X, with the add and remove they make on the
\* interval container, leave the bit and the stored intervals of every
\* other id unchanged, so calls on different ids yield the same table in
\* either order.
C29_OperationsLocalToId ==
    /\ [][\A y \in Ids :
             y # last'.id =>
                 /\ items'[y] = items[y]
                 /\ EntryOf(annotation', y) = EntryOf(annotation, y)]_vars
    /\ []CallsCommute

\* C29 witness: a call has changed the stored intervals of its id while
\* another id, untouched as the tiling record shows by this call, has a
\* bit set or intervals stored.
C29_Witness ==
    /\ last.op = "activate_n_annotate"
    /\ last.annotation_changed
    /\ MapContains(annotation.map, last.id)
    /\ \E y \in Ids :
          /\ y # last.id
          /\ annotation.some /\ MapContains(annotation.map, y)
          /\ Len(annotation.map[y]) = 2

\* C23: get_active_intervals(id, item_len) returns exactly [(0, item_len)]
\* whenever the item's bit is true (whatever the annotation map holds),
\* otherwise the stored partial intervals of the id, and the empty sequence
\* when nothing is recorded or the table has no annotation; it never
\* modifies the table.
C23_ActiveIntervalsOfBitOrRecord ==
    [][\A id \in Ids :
          GetActiveIntervals(id) =>
              /\ call_out'.res =
                    IF items[id] THEN <<<<0, item_lens[id]>>>>
                    ELSE IF annotation.some /\ MapContains(annotation.map, id)
                    THEN annotation.map[id]
                    ELSE <<>>
              /\ items' = items
              /\ annotation' = annotation]_vars

\* C23 witness: the query of an item whose bit is set while the annotation
\* map still holds a record of it has returned [(0, item_len)].
C23_Witness ==
    /\ call_in.f = "get_active_intervals"
    /\ call_out.done
    /\ items[call_in.id]
    /\ annotation.some
    /\ MapContains(annotation.map, call_in.id)
    /\ call_out.res = <<<<0, call_in.item_len>>>>
    /\ annotation.map[call_in.id] # call_out.res

----------------------------------------------------------------------------
(* Further claims about IntervalContainer, checked under SpecIC *)

\* y is x with at most one interval changed, and that one in one bound
OneBoundChanged(x, y) ==
    /\ Len(y) = Len(x)
    /\ \E j \in DOMAIN x :
          /\ \A k \in DOMAIN x : k # j => y[k] = x[k]
          /\ y[j][1] = x[j][1] \/ y[j][2] = x[j][2]

\* y is x with exactly one interval inserted
OneInserted(x, y) ==
    /\ Len(y) = Len(x) + 1
    /\ \E j \in DOMAIN y :
          x = SubSeq(y, 1, j - 1) \o SubSeq(y, j + 1, Len(y))

\* C22: a single add on an id that already has an entry either changes one
\* bound of exactly one stored interval or inserts exactly one new
\* interval; it never removes a stored interval, so the number of stored
\* intervals of the id never decreases under add.
\* (The steps that keep an entry of id are the adds on id and the calls on
\* other ids; the latter leave the entry as it is.)
C22_AddChangesOneInterval ==
    [][\A id \in Ids :
          (id \in DOMAIN ic /\ id \in DOMAIN ic' /\ ic_ops' = ic_ops + 1) =>
              /\ OneBoundChanged(ic[id], ic'[id]) \/ OneInserted(ic[id], ic'[id])
              /\ Len(ic'[id]) >= Len(ic[id])]_vars

\* C22 witness: three adds have left a chain of two adjacent intervals
\* uncoalesced: the second stored interval starts where the first ends.
C22_Witness ==
    \E id \in DOMAIN ic :
        /\ Cardinality(ic_hist[id].ivs) = 3
        /\ Len(ic[id]) = 2
        /\ ic[id][1][1] < ic[id][1][2]
        /\ ic[id][1][2] = ic[id][2][1]
        /\ ic[id][2][1] < ic[id][2][2]

----------------------------------------------------------------------------
(* Further claims about the Heaps fit, checked under SpecHeaps *)

\* the sample size whose growth value the baseline curve holds at the
\* 0-based index i: the curve lists the sample sizes 1..N
SampleSizeAt(i) == i + 1

\* C24: both anchors of the power-law fit are interior points of the
\* baseline growth curve: neither y value is the growth value at sample
\* size 1 or at sample size N, and each y value is the growth value at the
\* sample size given by the x value of its anchor.
C24_AnchorsAreInteriorPoints ==
    FitStored =>
        LET a == Anchors(Baseline(call_in.coverage, call_in.n))
        IN  /\ SampleSizeAt(a.i1) \notin {1, call_in.n}
            /\ SampleSizeAt(a.i2) \notin {1, call_in.n}
            /\ SampleSizeAt(a.i1) = a.x1
            /\ SampleSizeAt(a.i2) = a.x2

----------------------------------------------------------------------------
(* SpecRegression: get_regression applied to drawn histograms *)

\* the longest histogram drawn; from 13 entries on, take(n) cuts the pairs
MaxHistLen == 13

\* the histogram values of the model
HistValues == {0, 1}

\* what the external Huber solver may return as (slope, intercept)
SolverParams == {<<0 - 1, 0>>, <<0, 1>>, <<8, 0>>}

\* f64::log10 followed by the clamp of -inf (the logarithm of 0) to
\* -100000.0; the logarithm of a positive value is kept symbolic
Log10Clamped(v) ==
    IF v = 0 THEN [clamped |-> TRUE, of |-> 0] ELSE [clamped |-> FALSE, of |-> v]

\* mutant of SkipTake: no element is skipped
SkipTake_NoSkip(v, n) == [k \in 1 .. (IF Len(v) < n THEN Len(v) ELSE n) |-> v[k]]

\* iter().skip(1).take(n).collect()
SkipTake(v, n) ==
    LET rest == IF Len(v) = 0 THEN <<>> ELSE Tail(v)
    IN  [k \in 1 .. (IF Len(rest) < n THEN Len(rest) ELSE n) |-> rest[k]]

\* get_regression(hist) with the solver's answer params
GetRegressionFn(hist, params) ==
    LET x == [i \in 1 .. Max(Len(hist) - 1, 0) |-> i]
        log_x == [i \in DOMAIN x |-> Log10Clamped(x[i])]
        y == IF Len(hist) = 0 THEN <<>> ELSE Tail(hist)
        log_y == [i \in DOMAIN y |-> Log10Clamped(y[i])]
        n == Max(Len(hist) \div 2, 10)
        log_x2 == SkipTake(log_x, n)
        log_y2 == SkipTake(log_y, n)
    IN  [done |-> TRUE,
         res |-> [log_x2 |-> log_x2, log_y2 |-> log_y2, params |-> params,
                  alpha |-> 2 + params[1], offset |-> params[2]]]

InitRegression ==
    /\ overflow_checks = FALSE
    /\ \E len \in 0 .. MaxHistLen :
         \E hist \in [1 .. len -> HistValues] :
           call_in = [f |-> "get_regression", hist |-> hist]
    /\ call_out = NoResult
    /\ IdleAT /\ IdleIC /\ IdleTC /\ IdleAct
    /\ hists = NoHists /\ hist_aux = NoThresholds /\ inner = NoInner
    /\ parameter = [coverage |-> NoText, quorum |-> NoText]
    /\ gr_ret = NoGrowthCall

GetRegressionCall ==
    /\ call_in.f = "get_regression"
    /\ ~call_out.done
    /\ \E params \in SolverParams :
           call_out' = GetRegressionFn(call_in.hist, params)
    /\ UNCHANGED <<overflow_checks, call_in, atVars, icVars, tcVars, grVars,
                   actVars>>

NextRegression == GetRegressionCall

SpecRegression == InitRegression /\ [][NextRegression]_vars

RegressionDone == call_in.f = "get_regression" /\ call_out.done

\* C25: get_regression fits on the first n = max(len/2, 10) rank/value
\* pairs that remain after dropping the first element of the histogram and
\* skipping one pair: the pairs handed to the solver are exactly the
\* logarithms of (i, hist[i]) for i = 2 .. min(n+1, len-1), in this order,
\* so hist[0] and hist[1] are no part of them; alpha is 2 plus the fitted
\* slope and offset is the fitted intercept.
C25_RegressionPairs ==
    RegressionDone =>
        LET hist == call_in.hist
            len == Len(hist)
            n == Max(len \div 2, 10)
            hi == IF n + 1 < len - 1 THEN n + 1 ELSE len - 1
            res == call_out.res
        IN  /\ Len(res.log_x2) = Max(hi - 1, 0)
            /\ Len(res.log_y2) = Max(hi - 1, 0)
            /\ Len(res.log_x2) = LogPairs(len)
            /\ \A i \in 2 .. hi :
                   /\ res.log_x2[i - 1] = Log10Clamped(i)
                   /\ res.log_y2[i - 1] = Log10Clamped(hist[i + 1])
            /\ res.alpha = 2 + res.params[1]
            /\ res.offset = res.params[2]

\* C25 witness: a histogram of 13 entries, whose first two entries differ
\* from the third, has been fitted on the 10 pairs of the ranks 2..11, one
\* of them with a clamped logarithm, the pair of rank 12 left out.
C25_Witness ==
    /\ RegressionDone
    /\ Len(call_in.hist) = 13
    /\ call_in.hist[1] = 1 /\ call_in.hist[2] = 1 /\ call_in.hist[3] = 0
    /\ call_in.hist[13] = 1
    /\ Len(call_out.res.log_y2) = 10
    /\ call_out.res.log_y2[1].clamped
    /\ call_out.res.log_x2[10] = Log10Clamped(11)
    /\ call_out.res.alpha = 10

----------------------------------------------------------------------------
(* SpecMultiBar: the MultiBar item of the Growth report section *)

\* the longest growth row and the largest number of threshold pairs drawn
MaxRowLen == 3
MaxRows == 2

\* the entries of a growth row: a number or NaN
RowValues == {[nan |-> TRUE, v |-> 0], [nan |-> FALSE, v |-> 1]}

\* usize::to_string: the decimal digits
RECURSIVE UsizeToString(_)
UsizeToString(i) == IF i < 10 THEN <<i>> ELSE Append(UsizeToString(i \div 10), i % 10)

\* the display string of the i-th threshold pair (growth_labels[i])
GrowthLabel(i) == [pair |-> i]

\* the fields names, labels and values of the MultiBar item that
\* generate_report_section builds from the growth matrix v of a count type
MultiBarOf(v) ==
    [names |-> [i \in 1 .. Len(v) |-> GrowthLabel(i)],
     labels |-> [i \in 1 .. Len(v[1]) - 1 |-> UsizeToString(i)],
     values |-> [r \in 1 .. Len(v) |->
                   [i \in 1 .. Len(v[r]) |->
                      IF v[r][i].nan THEN [nan |-> FALSE, v |-> 0]
                      ELSE v[r][i]]]]

\* ReportItem::MultiBar::into_html: the entries of data_text, one for each
\* (l, n) of (0..labels.len()) x (0..names.len())
DataText(bar) ==
    {[label |-> bar.labels[l], name |-> bar.names[n], value |-> bar.values[n][l]] :
        l \in 1 .. Len(bar.labels), n \in 1 .. Len(bar.names)}

InitMultiBar ==
    /\ overflow_checks = FALSE
    /\ \E rows \in 1 .. MaxRows : \E len \in 1 .. MaxRowLen :
         \E v \in [1 .. rows -> [1 .. len -> RowValues]] :
           call_in = [f |-> "generate_report_section", v |-> v]
    /\ call_out = NoResult
    /\ IdleAT /\ IdleIC /\ IdleTC /\ IdleAct
    /\ hists = NoHists /\ hist_aux = NoThresholds /\ inner = NoInner
    /\ parameter = [coverage |-> NoText, quorum |-> NoText]
    /\ gr_ret = NoGrowthCall

\* the section of one count type is built and its item rendered
RenderGrowthSection ==
    /\ call_in.f = "generate_report_section"
    /\ ~call_out.done
    /\ call_out' = [done |-> TRUE,
                    res |-> [bar |-> MultiBarOf(call_in.v),
                             data_text |-> DataText(MultiBarOf(call_in.v))]]
    /\ UNCHANGED <<overflow_checks, call_in, atVars, icVars, tcVars, grVars,
                   actVars>>

NextMultiBar == RenderGrowthSection

SpecMultiBar == InitMultiBar /\ [][NextMultiBar]_vars

\* C26: in the Growth report section every growth row is presented
\* completely: the x-axis labels are the sample sizes 1..N, there are as
\* many labels as values in each row, the value shown under label m is the
\* growth value at sample size m, and there is one series name per
\* threshold pair.
C26_RowsShownCompletely ==
    (call_in.f = "generate_report_section" /\ call_out.done) =>
        LET v == call_in.v
            bar == call_out.res.bar
        IN  /\ Len(bar.names) = Len(v)
            /\ \A r \in 1 .. Len(v) :
                   /\ Len(bar.labels) = Len(bar.values[r])
                   /\ \A i \in 0 .. Len(v[r]) - 1 :
                          [label |-> UsizeToString(SampleSizeAt(i)),
                           name |-> bar.names[r],
                           value |-> bar.values[r][i + 1]]
                              \in call_out.res.data_text

----------------------------------------------------------------------------
(* SpecPipeline: execute_pipeline over drawn instruction lists *)

\* the longest instruction list drawn
MaxTasks == 2

\* a task and whether its call returns Ok; the CSC change is unimplemented
Tasks ==
    {[kind |-> k, ok |-> b] :
        k \in {"Analysis", "CustomSection", "GraphStateChange", "OrderChange"},
        b \in BOOLEAN}
    \cup {[kind |-> "AbacusByGroupCSCChange", ok |-> FALSE]}

\* json, shall_write_html, or neither (the table of the last analysis)
Modes == {"json", "html", "table"}

TaskEvent(index) == [ev |-> "task", index |-> index, what |-> "none"]
WriteEvent(what) == [ev |-> "write", index |-> 0, what |-> what]

\* mutant of RunTask: a section is written as soon as it is produced
RunTask_Stream(task, index) ==
    IF task.kind = "AbacusByGroupCSCChange"
    THEN [res |-> "panic", sections |-> 0, events |-> <<TaskEvent(index)>>]
    ELSE IF ~task.ok
    THEN [res |-> "Err", sections |-> 0, events |-> <<TaskEvent(index)>>]
    ELSE IF task.kind \in {"Analysis", "CustomSection"}
    THEN [res |-> "Ok", sections |-> 1,
          events |-> <<TaskEvent(index), WriteEvent("section")>>]
    ELSE [res |-> "Ok", sections |-> 0, events |-> <<TaskEvent(index)>>]

\* one pass of the loop body on instructions[index]: what the task does,
\* the sections it adds to the report and whether `?` or the panic leaves
RunTask(task, index) ==
    IF task.kind = "AbacusByGroupCSCChange"
    THEN [res |-> "panic", sections |-> 0, events |-> <<TaskEvent(index)>>]
    ELSE IF ~task.ok
    THEN [res |-> "Err", sections |-> 0, events |-> <<TaskEvent(index)>>]
    ELSE [res |-> "Ok",
          sections |-> IF task.kind \in {"Analysis", "CustomSection"}
                       THEN 1 ELSE 0,
          events |-> <<TaskEvent(index)>>]

\* the code after the loop: the text is built (post_ok), then written
\* (write_ok); an html report without any section panics in
\* generate_report_content
Output(instructions, sections, mode, post_ok, write_ok) ==
    LET written(what) ==
            IF ~post_ok THEN [res |-> "Err", at |-> 0, events |-> <<>>]
            ELSE IF ~write_ok THEN [res |-> "Err", at |-> 0, events |-> <<>>]
            ELSE [res |-> "Ok", at |-> 0, events |-> <<WriteEvent(what)>>]
    IN  IF mode = "json" THEN written("json")
        ELSE IF mode = "html"
        THEN IF sections = 0 THEN [res |-> "panic", at |-> 0, events |-> <<>>]
             ELSE written("html")
        ELSE IF instructions[Len(instructions)].kind = "Analysis"
        THEN written("table")
        ELSE [res |-> "Ok", at |-> 0, events |-> <<>>]

\* `for index in 0..instructions.len()` from index on, then the output
RECURSIVE Loop(_, _, _, _, _, _)
Loop(instructions, index, sections, mode, post_ok, write_ok) ==
    IF index > Len(instructions)
    THEN Output(instructions, sections, mode, post_ok, write_ok)
    ELSE LET t == RunTask(instructions[index], index)
         IN  IF t.res # "Ok"
             THEN [res |-> t.res, at |-> index, events |-> t.events]
             ELSE LET rest == Loop(instructions, index + 1,
                                   sections + t.sections, mode, post_ok,
                                   write_ok)
                  IN  [res |-> rest.res, at |-> rest.at,
                       events |-> t.events \o rest.events]

\* execute_pipeline(instructions, out, shall_write_html, json, ..)
ExecutePipelineFn(instructions, mode, post_ok, write_ok) ==
    IF Len(instructions) = 0 THEN [res |-> "Ok", at |-> 0, events |-> <<>>]
    ELSE Loop(instructions, 1, 0, mode, post_ok, write_ok)

InitPipeline ==
    /\ overflow_checks = FALSE
    /\ \E len \in 0 .. MaxTasks :
         \E instructions \in [1 .. len -> Tasks] :
           \E mode \in Modes, post_ok \in BOOLEAN, write_ok \in BOOLEAN :
             call_in = [f |-> "execute_pipeline", instructions |-> instructions,
                        mode |-> mode, post_ok |-> post_ok,
                        write_ok |-> write_ok]
    /\ call_out = NoResult
    /\ IdleAT /\ IdleIC /\ IdleTC /\ IdleAct
    /\ hists = NoHists /\ hist_aux = NoThresholds /\ inner = NoInner
    /\ parameter = [coverage |-> NoText, quorum |-> NoText]
    /\ gr_ret = NoGrowthCall

ExecutePipeline ==
    /\ call_in.f = "execute_pipeline"
    /\ ~call_out.done
    /\ call_out' = [done |-> TRUE,
                    res |-> ExecutePipelineFn(call_in.instructions, call_in.mode,
                                              call_in.post_ok, call_in.write_ok)]
    /\ UNCHANGED <<overflow_checks, call_in, atVars, icVars, tcVars, grVars,
                   actVars>>

NextPipeline == ExecutePipeline

SpecPipeline == InitPipeline /\ [][NextPipeline]_vars

PipelineDone == call_in.f = "execute_pipeline" /\ call_out.done

\* the task at index leaves the loop: its call fails or panics
Fails(task) == ~task.ok

\* C27: execute_pipeline writes nothing to the output before every task
\* has executed successfully: the tasks run in list order, the first
\* failing task ends the run with its failure, and then nothing has been
\* written; a write is the last event and follows the run of every task.
C27_NoOutputBeforeAllTasks ==
    PipelineDone =>
        LET ins == call_in.instructions
            res == call_out.res
            failing == {i \in DOMAIN ins : Fails(ins[i])}
            ran == {k \in DOMAIN res.events : res.events[k].ev = "task"}
            wrote == {k \in DOMAIN res.events : res.events[k].ev = "write"}
        IN  /\ \A k \in ran : res.events[k].index = k
            /\ failing # {} =>
                  LET first == CHOOSE i \in failing : \A j \in failing : i <= j
                  IN  /\ ran = 1 .. first
                      /\ wrote = {}
                      /\ res.at = first
                      /\ res.res = IF ins[first].kind = "AbacusByGroupCSCChange"
                                    THEN "panic" ELSE "Err"
            /\ wrote # {} =>
                  /\ failing = {}
                  /\ ran = 1 .. Len(ins)
                  /\ wrote = {Len(ins) + 1}
                  /\ res.res = "Ok"

\* C27 witness: the second of two tasks failed after the first had added a
\* section to the report, which was asked for as json and could have been
\* built and written: nothing is written.
C27_Witness ==
    /\ PipelineDone
    /\ Len(call_in.instructions) = 2
    /\ call_in.instructions[1] = [kind |-> "Analysis", ok |-> TRUE]
    /\ ~call_in.instructions[2].ok
    /\ call_in.mode = "json" /\ call_in.post_ok /\ call_in.write_ok
    /\ call_out.res.res = "Err"
    /\ call_out.res.at = 2
    /\ Len(call_out.res.events) = 2

----------------------------------------------------------------------------
(* SpecJsVars: the JS data object of a report of drawn sections *)

\* the largest number of sections and of items of a section drawn
MaxSections == 3
MaxSectionItems == 2

\* a section: whether it has a table and how many items it holds
Sections == [table : BOOLEAN, items : 0 .. MaxSectionItems]

\* JsVars = HashMap<String, HashMap<String, String>>: the outer keys with
\* the ids of the inner map; the entry of the j-th item of section i has
\* the id <<i, j>>, the table of section i the id <<i, 0>>
NoVars == [k \in {} |-> {}]

\* combine_vars(a, b): `if let Some(x) = a.get_mut(&k) { x.extend(v) }`
CombineVars(a, b) ==
    [k \in DOMAIN a |-> IF k \in DOMAIN b THEN a[k] \cup b[k] ELSE a[k]]

\* iter.reduce(combine_vars) of a non-empty sequence of maps
RECURSIVE Reduce(_)
Reduce(objs) ==
    IF Len(objs) = 1 THEN objs[1]
    ELSE CombineVars(Reduce(SubSeq(objs, 1, Len(objs) - 1)), objs[Len(objs)])

\* ReportItem::into_html: the map with the single key "datasets"
ItemVars(i, j) == [k \in {"datasets"} |-> {<<i, j>>}]

\* AnalysisSection::into_html of section i: the maps of its items, the
\* table inserted into the first one, reduced, the default map if none
SectionVars(sec, i) ==
    LET js_objects == [j \in 1 .. sec.items |-> ItemVars(i, j)]
        with_table ==
            IF sec.table /\ sec.items > 0
            THEN [js_objects EXCEPT ![1] =
                     [k \in DOMAIN @ \cup {"tables"} |->
                         IF k = "tables" THEN {<<i, 0>>} ELSE @[k]]]
            ELSE js_objects
    IN  IF sec.items = 0 THEN NoVars ELSE Reduce(with_table)

\* generate_report_content: the maps of the sections reduced; the expect
\* panics on a report without sections
ReportVars(sections) ==
    IF Len(sections) = 0 THEN [done |-> TRUE, res |-> [ret |-> "panic", vars |-> NoVars]]
    ELSE [done |-> TRUE,
          res |-> [ret |-> "Ok",
                   vars |-> Reduce([i \in 1 .. Len(sections) |->
                                       SectionVars(sections[i], i)])]]

InitJsVars ==
    /\ overflow_checks = FALSE
    /\ \E len \in 0 .. MaxSections :
         \E sections \in [1 .. len -> Sections] :
           call_in = [f |-> "generate_report_content", sections |-> sections]
    /\ call_out = NoResult
    /\ IdleAT /\ IdleIC /\ IdleTC /\ IdleAct
    /\ hists = NoHists /\ hist_aux = NoThresholds /\ inner = NoInner
    /\ parameter = [coverage |-> NoText, quorum |-> NoText]
    /\ gr_ret = NoGrowthCall

GenerateReportContent ==
    /\ call_in.f = "generate_report_content"
    /\ ~call_out.done
    /\ call_out' = ReportVars(call_in.sections)
    /\ UNCHANGED <<overflow_checks, call_in, atVars, icVars, tcVars, grVars,
                   actVars>>

NextJsVars == GenerateReportContent

SpecJsVars == InitJsVars /\ [][NextJsVars]_vars

\* the ids stored under the key k of a map
IdsUnder(js, k) == IF k \in DOMAIN js THEN js[k] ELSE {}

\* C30: the JS data object of a rendered report keeps every contribution:
\* it holds the "datasets" entry of every report item and the "tables"
\* entry of every section that has a table and at least one item, whatever
\* the order of the sections and whether or not the first section has a
\* table or any item.
C30_EveryContributionKept ==
    (call_in.f = "generate_report_content" /\ call_out.done
        /\ call_out.res.ret = "Ok") =>
        \A i \in DOMAIN call_in.sections :
            LET sec == call_in.sections[i]
            IN  /\ \A j \in 1 .. sec.items :
                       <<i, j>> \in IdsUnder(call_out.res.vars, "datasets")
                /\ (sec.table /\ sec.items > 0) =>
                       <<i, 0>> \in IdsUnder(call_out.res.vars, "tables")

============================================================================
